---- MODULE Spec2Model ----
(***************************************************************************)
(* Model of the draft selection cache of sgt-frontend                      *)
(* (src/utils/draftStorage.js): saveDraftToStorage, loadDraftFromStorage,  *)
(* clearDraftStorage and hasSavedDraft over the browser's localStorage.    *)
(*                                                                         *)
(* JavaScript values are tagged records, so that null, undefined, numbers, *)
(* arrays and objects can be told apart as the code tells them apart.      *)
(* A localStorage item is a string; a string is modelled either by its     *)
(* characters (text that is not JSON) or by the JSON value it denotes.     *)
(***************************************************************************)
EXTENDS Integers, Sequences, FiniteSets, TLC

----------------------------------------------------------------------------
(* Bounds of the model *)

MaxGolferId == 2
MaxTournamentId == 2
MaxMs == 1
\* the slots that the selection arrays of the inputs fill
VariedSlots == {1, 2}

----------------------------------------------------------------------------
(* Program constants *)

STORAGE_KEY == "sgt_draft_picks"
EXPIRATION_MS == 48 * 60 * 60 * 1000
NumSlots == 8

----------------------------------------------------------------------------
(* JavaScript values *)

Null == [t |-> "null"]
Undefined == [t |-> "undefined"]
Num(n) == [t |-> "number", v |-> n]
Bool(b) == [t |-> "boolean", v |-> b]
Arr(s) == [t |-> "array", items |-> s]
RawText(c) == [t |-> "string", chars |-> c]
JsonText(v) == [t |-> "string", json |-> v]
Golfer(i, n) == [t |-> "object", id |-> i, full_name |-> n]

\* !v
Falsy(v) ==
    \/ v.t = "null"
    \/ v.t = "undefined"
    \/ (v.t = "number" /\ v.v = 0)
    \/ (v.t = "boolean" /\ ~v.v)
    \/ (v.t = "string" /\ "chars" \in DOMAIN v /\ v.chars = "")

\* v.name for a non-null v: undefined unless v is an object that has it
Prop(v, name) ==
    IF v.t = "object" /\ name \in DOMAIN v THEN v[name] ELSE Undefined

\* a value that holds something: a golfer in a slot
Filled(x) == ~Falsy(x)

\* a > b and a <= b for a number a: false when b is not a number
Gt(a, b) == b.t = "number" /\ a > b.v
Lte(a, b) == b.t = "number" /\ a <= b.v

\* an array element as JSON.stringify writes it: undefined becomes null
JSONElement(x) == IF x.t = "undefined" THEN Null ELSE x

\* a JSON.stringify that leaves undefined elements out of an array, as it
\* leaves undefined properties out of an object
JSONstringify_OmitsUndefined(draftData) ==
    LET Defined(x) == x.t # "undefined"
    IN JsonText([draftData EXCEPT !.selections =
           Arr(SelectSeq(draftData.selections.items, Defined))])

\* JSON.stringify(draftData)
JSONstringify(draftData) ==
    JsonText([draftData EXCEPT !.selections =
        Arr([i \in DOMAIN draftData.selections.items |->
                JSONElement(draftData.selections.items[i])])])

\* JSON.parse(text): throws a SyntaxError on text that is not JSON
JSONparse(text) ==
    IF "json" \in DOMAIN text
    THEN [threw |-> FALSE, value |-> text.json]
    ELSE [threw |-> TRUE, value |-> Undefined]

----------------------------------------------------------------------------
(* Inputs *)

\* tournament ids a caller passes: a number, or none yet
TournamentIds == {Null, Undefined} \cup {Num(n) : n \in 1..MaxTournamentId}
\* the ids of tournaments
NumericIds == {Num(n) : n \in 1..MaxTournamentId}

\* a golfer as the draft screen held it when it saved, and as the
\* tournament field lists it now
CachedGolfers == {Golfer(i, "old") : i \in 1..MaxGolferId}
LiveGolfer(i) == Golfer(i, "new")

\* what a pick slot can hold
SlotValues == {Null, Undefined} \cup CachedGolfers

\* 8-slot selection arrays: the slots of VariedSlots vary, the rest are empty
EightSlotArrays ==
    {Arr([i \in 1..NumSlots |-> IF i \in VariedSlots THEN f[i] ELSE Null]) :
        f \in [VariedSlots -> SlotValues]}

\* save does not look at the array it is given: [] and [golfer] are
\* selections too
ShortArrays == {Arr(<<>>), Arr(<<Golfer(1, "old")>>)}

\* the arrays save is called with
SelectionArrays == EightSlotArrays \cup ShortArrays

\* Array(8).fill(null): no slot filled
NoSelections == Arr([i \in 1..NumSlots |-> Null])
\* no golfer available
NoGolfers == Arr(<<>>)

\* the available golfers: any part of the field, in id order
RECURSIVE SeqOfSet(_)
SeqOfSet(ids) ==
    IF ids = {} THEN <<>>
    ELSE LET m == CHOOSE x \in ids : \A y \in ids : x <= y
         IN <<LiveGolfer(m)>> \o SeqOfSet(ids \ {m})
GolferLists == {Arr(SeqOfSet(ids)) : ids \in SUBSET (1..MaxGolferId)}
\* the ids of the golfers of a list
Ids(G) == {G.items[i].id : i \in DOMAIN G.items}

\* values of the storage key that this module did not write
ForeignTexts ==
    {RawText("invalid json {{{"), RawText(""), JsonText(Null), JsonText(Num(1))}

ClockSteps == {1, EXPIRATION_MS}
\* the instants of a run: within MaxMs of the start or of one TTL later
InHorizon(time) ==
    /\ time <= EXPIRATION_MS + MaxMs
    /\ time % EXPIRATION_MS <= MaxMs

----------------------------------------------------------------------------
(* State *)

\* the cache: the browser's storage, the clock, and what was last done
VARIABLES localStorage, now, last, history
\* the draft screen: the state of the Draft component
VARIABLES selectedGolfers, message, submitPicksMutation
\* the answer of the draftData query (undefined until it arrives) and
\* whether the screen has still to take its first selections from it
VARIABLES queryData, initialLoad

\* the browser tabs that have the draft screen open: where each is in a
\* save
VARIABLES tabs
\* the session: the auth items of the browser's storage, the logout call
\* under way, and the route shown
VARIABLES authStorage, logoutCall, location

cacheVars == <<localStorage, now, last, history>>
draftVars == <<selectedGolfers, message, submitPicksMutation,
               queryData, initialLoad>>
tabVars == <<tabs>>
authVars == <<authStorage, logoutCall, location>>
vars == <<localStorage, now, last, history,
          selectedGolfers, message, submitPicksMutation,
          queryData, initialLoad, tabs, authStorage, logoutCall, location>>

Keys == {STORAGE_KEY}

\* what the storage key holds: nothing, a record of a tournament, or text
\* that is not a record
Held(ls) ==
    LET value == ls[STORAGE_KEY]
    IN IF value = Null THEN [kind |-> "nothing"]
       ELSE IF "json" \in DOMAIN value /\ value.json.t = "object"
            THEN [kind |-> "record",
                  tournamentId |-> value.json.tournamentId]
       ELSE [kind |-> "text"]

\* what a call that left storage as after found in it: Held(before), and
\* for a record whether after holds a record with the same selections
Replaced(before, after) ==
    IF Held(before).kind = "record"
    THEN [kind |-> "record",
          tournamentId |-> Held(before).tournamentId,
          sameSelections |->
              /\ Held(after).kind = "record"
              /\ before[STORAGE_KEY].json.selections
                     = after[STORAGE_KEY].json.selections]
    ELSE Held(before)

\* a removeItem that removes records only
removeItem_RecordsOnly(ls, key) ==
    IF Held(ls).kind = "record" THEN [ls EXCEPT ![key] = Null] ELSE ls
\* localStorage.removeItem(key)
removeItem(ls, key) == [ls EXCEPT ![key] = Null]
\* a setItem that keeps a record of the tournament it is given a record of
setItem_KeepsSameTournament(ls, key, value) ==
    IF /\ Held(ls).kind = "record"
       /\ Held(ls).tournamentId = value.json.tournamentId
    THEN ls ELSE [ls EXCEPT ![key] = value]
\* a setItem that merges a record into the record that is there: an empty
\* slot of the new record keeps the golfer of the old one
setItem_MergingSlots(ls, key, value) ==
    IF Held(ls).kind = "record"
    THEN LET old == ls[key].json.selections.items
             new == value.json.selections.items
         IN [ls EXCEPT ![key] =
                JsonText([value.json EXCEPT !.selections =
                    Arr([i \in DOMAIN new |->
                            IF new[i] = Null /\ i \in DOMAIN old
                            THEN old[i] ELSE new[i]])])]
    ELSE [ls EXCEPT ![key] = value]
\* a setItem that keeps a value that is already there
setItem_IfAbsent(ls, key, value) ==
    IF ls[key] = Null THEN [ls EXCEPT ![key] = value] ELSE ls
\* localStorage.setItem(key, value)
setItem(ls, key, value) == [ls EXCEPT ![key] = value]
\* localStorage.getItem(key): null when the key is absent
getItem(ls, key) == ls[key]

NotTouched == [kind |-> "untouched"]

\* last: what the most recent call did (its outcome, not its arguments);
\* replaced is what the key held before a call that wrote or removed it,
\* noGolfers whether it was a load that found a golfer in the record and
\* no slot valid because it was given no golfers at all
NoCall ==
    [op |-> "none", result |-> Undefined, threw |-> FALSE, logs |-> <<>>,
     calls |-> <<>>, faults |-> {}, branch |-> "", afterSave |-> FALSE,
     replaced |-> NotTouched, noGolfers |-> FALSE]

\* history: what the module last did to the key that still stands: the
\* arguments of the last save that wrote, an empty slot as null, or that a
\* clear removed the key since; neither after a load that removed the
\* record or a write from outside
NoHistory == [kind |-> "none"]
Cleared == [kind |-> "cleared"]
Saved(tournamentId, selections) ==
    [kind |-> "saved", tournamentId |-> tournamentId,
     selections |-> Arr([i \in DOMAIN selections.items |->
                            JSONElement(selections.items[i])])]

----------------------------------------------------------------------------
(* The cache operations.  Each returns the storage it leaves, its return   *)
(* value, whether it threw to its caller, what it logged with              *)
(* console.error, the storage primitives it called, the primitives that    *)
(* threw, and the branch it took.                                          *)

ClearErrorMsg == "Failed to clear draft from localStorage:"
LoadErrorMsg == "Failed to load draft from localStorage:"
SaveErrorMsg == "Failed to save draft to localStorage:"

\* clearDraftStorage without its try/catch
clearDraftStorage_Unguarded(ls, removeFails) ==
    IF removeFails
    THEN [ls |-> ls, result |-> Undefined, threw |-> TRUE,
          logs |-> <<>>, calls |-> <<"removeItem">>,
          faults |-> {"removeItem"}, branch |-> "remove failed"]
    ELSE [ls |-> removeItem(ls, STORAGE_KEY), result |-> Undefined,
          threw |-> FALSE, logs |-> <<>>, calls |-> <<"removeItem">>,
          faults |-> {}, branch |-> "removed"]

\* a clear that returns without removing the key
clearDraftStorage_KeepsValue(ls, removeFails) ==
    [ls |-> ls, result |-> Undefined, threw |-> FALSE, logs |-> <<>>,
     calls |-> <<"removeItem">>, faults |-> {},
     branch |-> IF removeFails THEN "remove failed" ELSE "removed"]

clearDraftStorage(ls, removeFails) ==
    IF removeFails
    THEN [ls |-> ls, result |-> Undefined, threw |-> FALSE,
          logs |-> <<ClearErrorMsg>>, calls |-> <<"removeItem">>,
          faults |-> {"removeItem"}, branch |-> "remove failed"]
    ELSE [ls |-> removeItem(ls, STORAGE_KEY), result |-> Undefined,
          threw |-> FALSE, logs |-> <<>>, calls |-> <<"removeItem">>,
          faults |-> {}, branch |-> "removed"]

\* if (tournamentId === null) return;
missingId_NullOnly(tournamentId) == tournamentId.t = "null"

\* if (!tournamentId) return;
missingId(tournamentId) == Falsy(tournamentId)

\* the record that save builds: Date.now() is read twice, at time and at
\* time + drift
makeDraftData(tournamentId, selections, time, drift) ==
    [t |-> "object",
     tournamentId |-> tournamentId,
     savedAt |-> Num(time),
     expiresAt |-> Num(time + drift + EXPIRATION_MS),
     selections |-> selections]

\* a catch block of save that drops the key
saveCatch_Clears(ls) ==
    [ls |-> removeItem(ls, STORAGE_KEY), result |-> Undefined,
     threw |-> FALSE, logs |-> <<SaveErrorMsg>>, calls |-> <<"setItem">>,
     faults |-> {"setItem"}, branch |-> "write failed"]

\* the catch block of save: setItem threw, so nothing was written
saveCatch(ls) ==
    [ls |-> ls, result |-> Undefined, threw |-> FALSE,
     logs |-> <<SaveErrorMsg>>, calls |-> <<"setItem">>,
     faults |-> {"setItem"}, branch |-> "write failed"]

saveDraftToStorage(ls, time, drift, tournamentId, selections, setFails) ==
    IF missingId(tournamentId)
    THEN [ls |-> ls, result |-> Undefined, threw |-> FALSE, logs |-> <<>>,
          calls |-> <<>>, faults |-> {}, branch |-> "no id"]
    ELSE LET draftData == makeDraftData(tournamentId, selections, time, drift)
         IN IF setFails
            THEN saveCatch(ls)
            ELSE [ls |-> setItem(ls, STORAGE_KEY, JSONstringify(draftData)),
                  result |-> Undefined, threw |-> FALSE, logs |-> <<>>,
                  calls |-> <<"setItem">>, faults |-> {},
                  branch |-> "written"]

\* load without the tournament check
tournamentMismatch_Never(draftData, tournamentId) == FALSE

\* draftData.tournamentId !== tournamentId
tournamentMismatch(draftData, tournamentId) ==
    Prop(draftData, "tournamentId") # tournamentId

\* Date.now() >= draftData.expiresAt
expired_AtDeadline(time, draftData) ==
    LET expiresAt == Prop(draftData, "expiresAt")
    IN expiresAt.t = "number" /\ time >= expiresAt.v

\* Date.now() > draftData.expiresAt
expired(time, draftData) == Gt(time, Prop(draftData, "expiresAt"))

\* availableGolfers.find(g => true)
find_First(availableGolfers, id) ==
    IF availableGolfers.items = <<>> THEN Undefined
    ELSE availableGolfers.items[1]

\* availableGolfers.find(g => g.id === id)
find(availableGolfers, id) ==
    LET hits == {i \in DOMAIN availableGolfers.items :
                    availableGolfers.items[i].id = id}
    IN IF hits = {} THEN Undefined
       ELSE availableGolfers.items[CHOOSE i \in hits : \A j \in hits : i <= j]

\* a callback that keeps a golfer who left the field
validate_KeepUnavailable(selection, availableGolfers) ==
    LET found == find(availableGolfers, selection.id)
    IN IF Falsy(selection) THEN Null
       ELSE IF Falsy(found) THEN selection ELSE found

\* a callback that returns the cached object of an available golfer
validate_TrustCached(selection, availableGolfers) ==
    LET found == find(availableGolfers, selection.id)
    IN IF Falsy(selection) THEN Null
       ELSE IF Falsy(found) THEN Null ELSE selection

\* a callback that keeps the cached golfers while no golfer is listed
validate_AwaitsGolfers(selection, availableGolfers) ==
    LET found == find(availableGolfers, selection.id)
    IN IF Falsy(selection) THEN Null
       ELSE IF availableGolfers.items = <<>> THEN selection
       ELSE IF Falsy(found) THEN Null ELSE found

\* the callback of draftData.selections.map
validate(selection, availableGolfers) ==
    LET availableGolferIds ==
            {availableGolfers.items[i].id : i \in DOMAIN availableGolfers.items}
        found == find(availableGolfers, selection.id)
    IN IF Falsy(selection) THEN Null
       ELSE IF selection.id \notin availableGolferIds THEN Null
       ELSE IF Falsy(found) THEN Null ELSE found

\* load without the check for an empty result
hasValidSelections_Always(validatedSelections) == TRUE

\* validatedSelections.some(s => s !== null)
hasValidSelections(validatedSelections) ==
    \E i \in DOMAIN validatedSelections : validatedSelections[i] # Null

\* a catch block of load that does not log
loadCatch_Silent(clr, thrown, branch) ==
    [ls |-> clr.ls,
     result |-> IF clr.threw THEN Undefined ELSE Null,
     threw |-> clr.threw, logs |-> clr.logs,
     calls |-> <<"getItem">> \o clr.calls,
     faults |-> thrown \cup clr.faults, branch |-> branch]

\* the catch block of load, after clearDraftStorage() ran as clr
loadCatch(clr, thrown, branch) ==
    [ls |-> clr.ls,
     result |-> IF clr.threw THEN Undefined ELSE Null,
     threw |-> clr.threw, logs |-> <<LoadErrorMsg>> \o clr.logs,
     calls |-> <<"getItem">> \o clr.calls,
     faults |-> thrown \cup clr.faults, branch |-> branch]

\* a load that writes the validated selections back into the record
returnValidated_Rewriting(ls, validatedSelections) ==
    [ls |-> setItem(ls, STORAGE_KEY,
                    JsonText([ls[STORAGE_KEY].json EXCEPT
                                 !.selections = Arr(validatedSelections)])),
     result |-> Arr(validatedSelections), threw |-> FALSE, logs |-> <<>>,
     calls |-> <<"getItem", "setItem">>, faults |-> {}, branch |-> "restored"]

\* a load that hands a draft out once: it removes the record it returns
returnValidated_Consuming(ls, validatedSelections) ==
    [ls |-> removeItem(ls, STORAGE_KEY),
     result |-> Arr(validatedSelections), threw |-> FALSE, logs |-> <<>>,
     calls |-> <<"getItem", "removeItem">>, faults |-> {},
     branch |-> "restored"]

\* return validatedSelections: storage stays as it was read
returnValidated(ls, validatedSelections) ==
    [ls |-> ls, result |-> Arr(validatedSelections), threw |-> FALSE,
     logs |-> <<>>, calls |-> <<"getItem">>, faults |-> {},
     branch |-> "restored"]

loadDraftFromStorage(ls, time, tournamentId, availableGolfers, getFails, removeFails) ==
    LET clr == clearDraftStorage(ls, removeFails)
        Return(branch, value) ==
            [ls |-> ls, result |-> value, threw |-> FALSE, logs |-> <<>>,
             calls |-> <<"getItem">>, faults |-> {}, branch |-> branch]
        Destroy(branch) ==
            [ls |-> clr.ls,
             result |-> IF clr.threw THEN Undefined ELSE Null,
             threw |-> clr.threw, logs |-> clr.logs,
             calls |-> <<"getItem">> \o clr.calls, faults |-> clr.faults,
             branch |-> branch]
        stored == getItem(ls, STORAGE_KEY)
        parsed == JSONparse(stored)
        draftData == parsed.value
        selections == Prop(draftData, "selections")
        validatedSelections ==
            [i \in DOMAIN selections.items |->
                validate(selections.items[i], availableGolfers)]
    IN IF getFails THEN loadCatch(clr, {"getItem"}, "getItem threw")
       ELSE IF Falsy(stored) THEN Return("absent", Null)
       ELSE IF parsed.threw THEN loadCatch(clr, {}, "SyntaxError")
       ELSE IF draftData.t \in {"null", "undefined"}
            THEN loadCatch(clr, {}, "TypeError")
       ELSE IF tournamentMismatch(draftData, tournamentId)
            THEN Destroy("mismatch")
       ELSE IF expired(time, draftData) THEN Destroy("expired")
       ELSE IF selections.t # "array" THEN loadCatch(clr, {}, "TypeError")
       ELSE IF ~hasValidSelections(validatedSelections) THEN Destroy("invalid")
       ELSE returnValidated(ls, validatedSelections)

\* Date.now() < draftData.expiresAt
notExpired_Strict(time, draftData) ==
    LET expiresAt == Prop(draftData, "expiresAt")
    IN expiresAt.t = "number" /\ time < expiresAt.v

\* Date.now() <= draftData.expiresAt
notExpired(time, draftData) == Lte(time, Prop(draftData, "expiresAt"))

\* an exists that removes the value it answers false for
answer_Cleaning(ls, branch, value, thrown) ==
    [ls |-> IF value THEN ls ELSE removeItem(ls, STORAGE_KEY),
     result |-> Bool(value), threw |-> FALSE, logs |-> <<>>,
     calls |-> IF value THEN <<"getItem">> ELSE <<"getItem", "removeItem">>,
     faults |-> thrown, branch |-> branch]

\* exists returns a boolean and leaves storage as it read it
answer(ls, branch, value, thrown) ==
    [ls |-> ls, result |-> Bool(value), threw |-> FALSE,
     logs |-> <<>>, calls |-> <<"getItem">>, faults |-> thrown,
     branch |-> branch]

hasSavedDraft(ls, time, tournamentId, getFails) ==
    LET Return(branch, value, thrown) == answer(ls, branch, value, thrown)
        stored == getItem(ls, STORAGE_KEY)
        parsed == JSONparse(stored)
        draftData == parsed.value
    IN IF getFails THEN Return("getItem threw", FALSE, {"getItem"})
       ELSE IF Falsy(stored) THEN Return("absent", FALSE, {})
       ELSE IF parsed.threw THEN Return("SyntaxError", FALSE, {})
       ELSE IF draftData.t \in {"null", "undefined"}
            THEN Return("TypeError", FALSE, {})
       ELSE Return("checked",
                   /\ Prop(draftData, "tournamentId") = tournamentId
                   /\ notExpired(time, draftData),
                   {})

----------------------------------------------------------------------------
(* Actions *)

\* no tab is in a save
Tabs == {1, 2}
IdleTab == [pc |-> "idle", overtaken |-> FALSE]
TabsIdle == tabs = [tab \in Tabs |-> IdleTab]

\* the items login stores, and a signed-in user on the draft route with
\* no logout under way
AuthKeys == {"authToken", "user"}
SignedIn(token, user) == [k \in AuthKeys |-> IF k = "authToken" THEN token ELSE user]
NoLogout == [pc |-> "idle"]
Visiting ==
    /\ authStorage = SignedIn(RawText("token1"), JsonText(Num(1)))
    /\ logoutCall = NoLogout
    /\ location = "/draft"

\* the Draft component as it mounts: useState([]), useState(true),
\* useState(''), and a mutation that has not run
Idle == [status |-> "idle", variables |-> Undefined]
Mounted ==
    /\ selectedGolfers = Arr(<<>>)
    /\ initialLoad = TRUE
    /\ message = ""
    /\ submitPicksMutation = Idle

Init ==
    /\ localStorage = [k \in Keys |-> Null]
    /\ now = 0
    /\ last = NoCall
    /\ history = NoHistory
    /\ queryData = Undefined
    /\ Mounted
    /\ TabsIdle
    /\ Visiting

Called(op, out) ==
    [op |-> op, result |-> out.result, threw |-> out.threw,
     logs |-> out.logs, calls |-> out.calls, faults |-> out.faults,
     branch |-> out.branch,
     afterSave |-> (op = "load" /\ last.op = "save" /\ last.branch = "written"),
     replaced |-> IF out.faults = {} /\ out.calls # <<>>
                     /\ out.calls[Len(out.calls)] \in {"setItem", "removeItem"}
                  THEN Replaced(localStorage, out.ls) ELSE NotTouched,
     noGolfers |-> FALSE]

\* saveDraftToStorage(tournamentId, selections); the clock may advance by
\* drift between the two Date.now() calls
Save(tournamentId, selections, setFails, drift) ==
    /\ InHorizon(now + drift)
    /\ \E out \in {saveDraftToStorage(localStorage, now, drift, tournamentId,
                                      selections, setFails)} :
       /\ localStorage' = out.ls
       /\ now' = IF missingId(tournamentId) THEN now ELSE now + drift
       /\ last' = Called("save", out)
       /\ history' = IF out.branch = "written"
                     THEN Saved(tournamentId, selections) ELSE history
       /\ UNCHANGED <<draftVars, tabVars, authVars>>

\* loadDraftFromStorage(tournamentId, availableGolfers)
Load(tournamentId, availableGolfers, getFails, removeFails) ==
    \E out \in {loadDraftFromStorage(localStorage, now, tournamentId,
                                     availableGolfers, getFails, removeFails)} :
       /\ localStorage' = out.ls
       /\ now' = now
       /\ last' = [Called("load", out) EXCEPT
             !.noGolfers =
                 /\ out.branch = "invalid"
                 /\ availableGolfers.items = <<>>
                 /\ \E kept \in {localStorage[STORAGE_KEY].json.selections} :
                       \E i \in DOMAIN kept.items : Filled(kept.items[i])]
       /\ history' = IF history.kind = "saved" /\ out.ls # localStorage
                     THEN NoHistory ELSE history
       /\ UNCHANGED <<draftVars, tabVars, authVars>>

\* clearDraftStorage()
Clear(removeFails) ==
    \E out \in {clearDraftStorage(localStorage, removeFails)} :
       /\ localStorage' = out.ls
       /\ now' = now
       /\ last' = Called("clear", out)
       /\ history' = IF out.branch = "removed" THEN Cleared ELSE history
       /\ UNCHANGED <<draftVars, tabVars, authVars>>

\* hasSavedDraft(tournamentId)
HasSaved(tournamentId, getFails) ==
    \E out \in {hasSavedDraft(localStorage, now, tournamentId, getFails)} :
       /\ localStorage' = out.ls
       /\ now' = now
       /\ last' = Called("exists", out)
       /\ history' = history
       /\ UNCHANGED <<draftVars, tabVars, authVars>>

\* time passes, and a timer removes the record that has expired
Tick_Purging(d) ==
    /\ InHorizon(now + d)
    /\ now' = now + d
    /\ last' = [NoCall EXCEPT !.op = "tick"]
    /\ localStorage' =
          IF /\ Held(localStorage).kind = "record"
             /\ expired(now + d, localStorage[STORAGE_KEY].json)
          THEN removeItem(localStorage, STORAGE_KEY) ELSE localStorage
    /\ UNCHANGED history
    /\ UNCHANGED <<draftVars, tabVars, authVars>>

\* time passes
Tick(d) ==
    /\ InHorizon(now + d)
    /\ now' = now + d
    /\ last' = [NoCall EXCEPT !.op = "tick"]
    /\ UNCHANGED <<localStorage, history>>
    /\ UNCHANGED <<draftVars, tabVars, authVars>>

\* the storage key is written from outside the module
ForeignWrite(text) ==
    /\ localStorage' = setItem(localStorage, STORAGE_KEY, text)
    /\ last' = [NoCall EXCEPT !.op = "foreign"]
    /\ history' = NoHistory
    /\ UNCHANGED now
    /\ UNCHANGED <<draftVars, tabVars, authVars>>

\* A call in which setItem or getItem throws does the same whatever
\* selections or golfers it is given, so those calls are made with none.
Next ==
    \/ \E T \in TournamentIds, S \in SelectionArrays, d \in 0..MaxMs :
          Save(T, S, FALSE, d)
    \/ \E T \in TournamentIds, d \in 0..MaxMs :
          Save(T, NoSelections, TRUE, d)
    \/ \E T \in TournamentIds, G \in GolferLists, rf \in BOOLEAN :
          Load(T, G, FALSE, rf)
    \/ \E T \in TournamentIds, rf \in BOOLEAN :
          Load(T, NoGolfers, TRUE, rf)
    \/ \E rf \in BOOLEAN : Clear(rf)
    \/ \E T \in TournamentIds, gf \in BOOLEAN : HasSaved(T, gf)
    \/ \E d \in ClockSteps : Tick(d)
    \/ \E text \in ForeignTexts : ForeignWrite(text)

Spec == Init /\ [][Next]_vars

\* a record under the key that has no expiresAt, as code other than save
\* may have stored it: a golfer in slot 1
NoExpiryRecord(tournamentId) ==
    JsonText([t |-> "object", tournamentId |-> tournamentId,
              selections |-> [NoSelections EXCEPT
                                 !.items[1] = Golfer(1, "old")]])

\* what the module may find under the key when it is loaded: nothing, or
\* a record it did not write
StoredBefore ==
    {[k \in Keys |-> Null]} \cup
    {[k \in Keys |-> NoExpiryRecord(T)] : T \in NumericIds}

StoredInit ==
    /\ localStorage \in StoredBefore
    /\ now = 0
    /\ last = NoCall
    /\ history = NoHistory
    /\ queryData = Undefined
    /\ Mounted
    /\ TabsIdle
    /\ Visiting

\* the module started on any of these stored values
StoredSpec == StoredInit /\ [][Next]_vars

----------------------------------------------------------------------------
(* The draft screen in pick mode (components/Draft.js) *)

\* the golfers and the tournament the server returned (data)
DraftGolfers == Arr([i \in 1..NumSlots |-> LiveGolfer(i)])
data ==
    [mode |-> "pick", golfers |-> DraftGolfers,
     tournament |-> [id |-> Num(1)]]

\* the value of the option "Select a golfer"
NoOption == RawText("")

\* data.golfers.find(g => g.id === parseInt(e.target.value))
optionGolfer(value) ==
    IF value.t = "number" THEN find(data.golfers, value.v) ELSE Undefined

\* newPicks: a copy of selectedGolfers with golfer at index priority - 1;
\* an index past the end lengthens the array, the slots between undefined
handleGolferSelect(selected, golfer, priority) ==
    LET length == IF priority > Len(selected.items) THEN priority
                  ELSE Len(selected.items)
    IN Arr([i \in 1..length |->
              IF i = priority THEN golfer
              ELSE IF i <= Len(selected.items) THEN selected.items[i]
              ELSE Undefined])

\* a select that offers the whole field
getAvailableGolfers_WholeField(selected, currentPriority) == data.golfers

\* the golfers offered in the select of a slot: those not selected in
\* another slot
getAvailableGolfers(selected, currentPriority) ==
    LET selectedGolferIds ==
            {selected.items[i].id :
                i \in {j \in DOMAIN selected.items :
                          j # currentPriority /\ Filled(selected.items[j])}}
        Offered(golfer) == golfer.id \notin selectedGolferIds
    IN Arr(SelectSeq(data.golfers.items, Offered))

\* the picks of the first 8 entries of the array, an empty slot as a pick
\* of no golfer
picksOf_EverySlot(selected) ==
    [i \in DOMAIN selected.items |->
        [golfer_id |-> IF Filled(selected.items[i]) THEN selected.items[i].id
                       ELSE 0]]

\* selectedGolfers.filter(golfer => golfer).map(golfer => ({golfer_id}))
picksOf(selected) ==
    LET chosen == SelectSeq(selected.items, Filled)
    IN [i \in DOMAIN chosen |-> [golfer_id |-> chosen[i].id]]

PleaseSelectMsg == "Please select exactly 8 golfers"
SubmittedMsg == "Picks submitted successfully!"
FailedMsg == "Failed to submit picks"

\* the options a user is taken to choose in slot priority: none, the
\* golfer of that number, and in the varied slots the first golfers
Choices(priority) ==
    {NoOption} \cup
    {Num(i) : i \in {j \in Ids(getAvailableGolfers(selectedGolfers, priority)) :
                        \/ j = priority
                        \/ priority \in VariedSlots /\ j <= MaxGolferId}}

\* a visit finds storage empty or holding a draft cached before
CachedBefore ==
    {[k \in Keys |-> Null]} \cup
    {saveDraftToStorage([k \in Keys |-> Null], 0, 0, T,
                        [NoSelections EXCEPT !.items[1] = Golfer(1, "old")],
                        FALSE).ls : T \in NumericIds}

DraftInit ==
    /\ localStorage \in CachedBefore
    /\ now = 0
    /\ last = NoCall
    /\ history = NoHistory
    /\ queryData = data
    /\ Mounted
    /\ TabsIdle
    /\ Visiting

\* the screen shows the selects and the submit button once the query
\* has answered in pick or in edit mode
Selecting == queryData # Undefined /\ queryData.mode \in {"pick", "edit"}

\* the user changes the select of a slot
onChange(priority, value) ==
    /\ Selecting
    /\ value \in Choices(priority)
    /\ selectedGolfers' =
          handleGolferSelect(selectedGolfers, optionGolfer(value), priority)
    /\ UNCHANGED <<message, submitPicksMutation, queryData, initialLoad>>
    /\ UNCHANGED <<cacheVars, tabVars, authVars>>

\* the submit handler
handleSubmit ==
    /\ Selecting
    /\ submitPicksMutation.status # "pending"
    /\ IF Len(picksOf(selectedGolfers)) # NumSlots
       THEN /\ message' = PleaseSelectMsg
            /\ UNCHANGED submitPicksMutation
       ELSE /\ submitPicksMutation' =
                  [status |-> "pending", variables |-> picksOf(selectedGolfers)]
            /\ UNCHANGED message
    /\ UNCHANGED <<selectedGolfers, queryData, initialLoad>>
    /\ UNCHANGED <<cacheVars, tabVars, authVars>>

\* the server accepted the picks
onSuccess ==
    /\ submitPicksMutation.status = "pending"
    /\ message' = SubmittedMsg
    /\ submitPicksMutation' = [submitPicksMutation EXCEPT !.status = "success"]
    /\ UNCHANGED <<selectedGolfers, queryData, initialLoad>>
    /\ UNCHANGED <<cacheVars, tabVars, authVars>>

\* the request failed
onError ==
    /\ submitPicksMutation.status = "pending"
    /\ message' = FailedMsg
    /\ submitPicksMutation' = [submitPicksMutation EXCEPT !.status = "error"]
    /\ UNCHANGED <<selectedGolfers, queryData, initialLoad>>
    /\ UNCHANGED <<cacheVars, tabVars, authVars>>

DraftNext ==
    \/ \E priority \in 1..NumSlots, value \in {NoOption} \cup
            {Num(i) : i \in 1..NumSlots} : onChange(priority, value)
    \/ handleSubmit
    \/ onSuccess
    \/ onError

DraftSpec == DraftInit /\ [][DraftNext]_vars

----------------------------------------------------------------------------
(* The draft screen with an existing submission: the component that has    *)
(* the edit mode and pre-populates the selects from the server's picks     *)

\* the golfer id of a pick of a golfer who has left the field
WithdrawnId == NumSlots + 1
Pick(golfer_id, priority) == [golfer_id |-> golfer_id, priority |-> priority]

\* the 8 picks of a submission as the server lists them, last golfer
\* first: golfer g has priority g, but the first golfers have the
\* priorities given by order and golfer withdrawn (if any) has left the field
Submission(order, withdrawn) ==
    [i \in 1..NumSlots |->
        LET g == NumSlots + 1 - i
        IN Pick(IF g = withdrawn THEN WithdrawnId ELSE g,
                IF g \in DOMAIN order THEN order[g] ELSE g)]

\* priorities of the first golfers: their own numbers, or those reversed
InOrder == [g \in 1..MaxGolferId |-> g]
Reversed == [g \in 1..MaxGolferId |-> MaxGolferId + 1 - g]

\* data.picks: none yet, or a submission
ServerPicks ==
    {<<>>, Submission(InOrder, 0), Submission(Reversed, 0),
     Submission(Reversed, NumSlots - 1)}

\* a visit finds storage empty or holding a draft of the tournament cached
\* before, with other golfers than the server's picks have in its slots
EditCachedBefore ==
    {[k \in Keys |-> Null],
     saveDraftToStorage([k \in Keys |-> Null], 0, 0, data.tournament.id,
                        [NoSelections EXCEPT !.items[1] = Golfer(NumSlots, "old"),
                                             !.items[2] = Golfer(1, "old")],
                        FALSE).ls}

\* the answer of the server for a user who has submitted picks
editData(picks) ==
    [mode |-> "edit", golfers |-> data.golfers,
     tournament |-> data.tournament, picks |-> picks]

\* the picks in the order the server lists them
sortedPicks_ServerOrder(picks) == picks

\* [...data.picks].sort((a, b) => a.priority - b.priority): a stable sort
RECURSIVE sortedPicks(_)
sortedPicks(picks) ==
    IF picks = <<>> THEN <<>>
    ELSE LET first == CHOOSE i \in DOMAIN picks :
                 \A j \in DOMAIN picks :
                     \/ picks[i].priority < picks[j].priority
                     \/ picks[i].priority = picks[j].priority /\ i <= j
             rest == [k \in 1..(Len(picks) - 1) |->
                         IF k < first THEN picks[k] ELSE picks[k + 1]]
         IN <<picks[first]>> \o sortedPicks(rest)

\* sortedPicks.map(pick => data.golfers.find(...)).filter(Boolean)
preSelectedGolfers(response) ==
    LET sorted == sortedPicks(response.picks)
    IN SelectSeq([i \in DOMAIN sorted |->
                     find(response.golfers, sorted[i].golfer_id)], Filled)

\* Array(8).fill(null) with the pre-selected golfers from index 0 on
initialSelections(response) ==
    LET golfers == preSelectedGolfers(response)
    IN Arr([i \in 1..NumSlots |->
               IF i <= Len(golfers) THEN golfers[i] ELSE Null])

EditInit ==
    /\ localStorage \in EditCachedBefore
    /\ now = 0
    /\ last = NoCall
    /\ history = NoHistory
    /\ queryData = Undefined
    /\ Mounted
    /\ TabsIdle
    /\ Visiting

\* the draftData query answers and the effect on [data, initialLoad] runs
getDraftData(response) ==
    /\ queryData = Undefined
    /\ queryData' = response
    /\ IF response.mode \in {"edit", "pick"} /\ initialLoad
       THEN /\ selectedGolfers' =
                  IF response.mode = "edit" /\ Len(response.picks) > 0
                  THEN initialSelections(response) ELSE selectedGolfers
            /\ initialLoad' = FALSE
       ELSE UNCHANGED <<selectedGolfers, initialLoad>>
    /\ UNCHANGED <<message, submitPicksMutation>>
    /\ UNCHANGED <<cacheVars, tabVars, authVars>>

EditNext ==
    \/ \E picks \in ServerPicks : getDraftData(editData(picks))
    \/ \E priority \in 1..NumSlots, value \in {NoOption} \cup
            {Num(i) : i \in 1..NumSlots} : onChange(priority, value)
    \/ handleSubmit
    \/ onSuccess
    \/ onError

EditSpec == EditInit /\ [][EditNext]_vars

----------------------------------------------------------------------------
(* Two tabs saving to the same storage.  A save runs to its end within a   *)
(* tab, but the tabs run side by side: between the moment a tab has built  *)
(* its record and the moment it writes it, the other tab may write.        *)

\* the selections of the screen of a tab: a golfer in the slot of the tab's
\* number, the other slots empty
TabSelections(tab) ==
    {[NoSelections EXCEPT !.items[tab] = g] : g \in CachedGolfers}

TabsInit ==
    /\ localStorage = [k \in Keys |-> Null]
    /\ now = 0
    /\ last = NoCall
    /\ history = NoHistory
    /\ queryData = data
    /\ Mounted
    /\ TabsIdle
    /\ Visiting

\* a tab enters save(tournamentId, selections) and builds draftData; found
\* is what the key holds at that moment
BeginSave(tab, tournamentId, selections) ==
    /\ tabs[tab].pc = "idle"
    /\ ~missingId(tournamentId)
    /\ tabs' = [tabs EXCEPT ![tab] =
                   [pc |-> "built", tournamentId |-> tournamentId,
                    selections |-> selections, time |-> now,
                    found |-> Held(localStorage)]]
    /\ UNCHANGED <<cacheVars, draftVars, authVars>>

\* the tab writes the record it has built and leaves save; overtaken says
\* whether the key was written by the other tab since the record was built
\* (the clock stands still in this specification)
FinishSave(tab, setFails) ==
    /\ tabs[tab].pc = "built"
    /\ \E out \in {saveDraftToStorage(localStorage, tabs[tab].time, 0,
                                      tabs[tab].tournamentId,
                                      tabs[tab].selections, setFails)} :
          /\ localStorage' = out.ls
          /\ last' = Called("save", out)
          /\ history' = IF out.branch = "written"
                        THEN Saved(tabs[tab].tournamentId, tabs[tab].selections)
                        ELSE history
    /\ tabs' = [tabs EXCEPT ![tab] =
                   [pc |-> "idle",
                    overtaken |-> Held(localStorage) # tabs[tab].found]]
    /\ UNCHANGED now
    /\ UNCHANGED <<draftVars, authVars>>

TabsNext ==
    \/ \E tab \in Tabs : \E S \in TabSelections(tab) :
          BeginSave(tab, data.tournament.id, S)
    \/ \E tab \in Tabs, sf \in BOOLEAN : FinishSave(tab, sf)

TabsSpec == TabsInit /\ [][TabsNext]_vars

----------------------------------------------------------------------------
(* The session (services/auth.js) and the routes of the app (App.js)       *)

\* the tokens and the users the server answers a login with
Tokens == {RawText("token1"), RawText("token2"), RawText("token3")}
Users == {JsonText(Num(u)) : u \in 1..3}

PublicPaths == {"/login", "/reset-password"}
PrivatePaths == {"/", "/draft", "/admin"}
\* a path with no route of its own
OtherPath == "/nowhere"

\* a logout that removes the items only when the request succeeds
logout_OnSuccessOnly(storage, ok) ==
    [storage |-> IF ok
                 THEN removeItem(removeItem(storage, "authToken"), "user")
                 ELSE storage,
     threw |-> ~ok]

\* authService.logout once api.delete has answered: the finally block
\* removes both items, and a failure of the request is thrown on
logout(storage, ok) ==
    [storage |-> removeItem(removeItem(storage, "authToken"), "user"),
     threw |-> ~ok]

\* !!localStorage.getItem('authToken')
isAuthenticated(storage) == ~Falsy(getItem(storage, "authToken"))

\* PrivateRoute: the children, or <Navigate to="/login" />
PrivateRoute(storage, path) ==
    IF isAuthenticated(storage) THEN path ELSE "/login"

\* the route that ends up shown for a path
Routed(storage, path) ==
    IF path \in PublicPaths THEN path
    ELSE IF path \in PrivatePaths THEN PrivateRoute(storage, path)
    ELSE PrivateRoute(storage, "/")

AuthInit ==
    /\ localStorage = [k \in Keys |-> Null]
    /\ now = 0
    /\ last = NoCall
    /\ history = NoHistory
    /\ queryData = Undefined
    /\ Mounted
    /\ TabsIdle
    /\ authStorage = [k \in AuthKeys |-> Null]
    /\ logoutCall = NoLogout
    /\ location = "/login"

\* the user opens a path
visit(path) ==
    /\ location' = Routed(authStorage, path)
    /\ UNCHANGED <<authStorage, logoutCall>>
    /\ UNCHANGED <<cacheVars, draftVars, tabVars>>

\* authService.login answered by the server, and the login page going
\* to "/"
login(token, user) ==
    /\ location = "/login"
    /\ authStorage' = setItem(setItem(authStorage, "authToken", token),
                              "user", user)
    /\ logoutCall' = IF logoutCall.pc = "pending" THEN logoutCall
                     ELSE NoLogout
    /\ location' = "/"
    /\ UNCHANGED <<cacheVars, draftVars, tabVars>>

\* the logout button: authService.logout() sends the request
handleLogout ==
    /\ location \in PrivatePaths
    /\ logoutCall.pc # "pending"
    /\ logoutCall' = [pc |-> "pending"]
    /\ UNCHANGED <<authStorage, location>>
    /\ UNCHANGED <<cacheVars, draftVars, tabVars>>

\* the request is answered: logout finishes, and handleLogout goes to
\* the login page unless logout threw
signOut(ok) ==
    /\ logoutCall.pc = "pending"
    /\ \E out \in {logout(authStorage, ok)} :
          /\ authStorage' = out.storage
          /\ logoutCall' = [pc |-> IF out.threw THEN "rejected"
                                   ELSE "resolved"]
          /\ location' = IF out.threw THEN location ELSE "/login"
    /\ UNCHANGED <<cacheVars, draftVars, tabVars>>

AuthNext ==
    \/ \E path \in PublicPaths \cup PrivatePaths \cup {OtherPath} : visit(path)
    \/ \E token \in Tokens, user \in Users : login(token, user)
    \/ handleLogout
    \/ \E ok \in BOOLEAN : signOut(ok)

AuthSpec == AuthInit /\ [][AuthNext]_vars

----------------------------------------------------------------------------
(* Vocabulary of the properties *)

\* the value under the storage key, and the record it holds when it is one
stored == localStorage[STORAGE_KEY]
HoldsRecord == "json" \in DOMAIN stored /\ stored.json.t = "object"
record == stored.json
Absent == stored = Null

GolferIds(S) ==
    {S.items[i].id : i \in {j \in DOMAIN S.items : Filled(S.items[j])}}

\* R is an array that holds, slot by slot, the golfers of S by id
SameById(R, S) ==
    /\ R.t = "array"
    /\ DOMAIN R.items = DOMAIN S.items
    /\ \A i \in DOMAIN S.items :
          IF Filled(S.items[i])
          THEN Filled(R.items[i]) /\ R.items[i].id = S.items[i].id
          ELSE ~Filled(R.items[i])

\* the last call was a save(T, S) that wrote its record
WrittenBy(T, S) ==
    /\ last.op = "save"
    /\ last.branch = "written"
    /\ HoldsRecord
    /\ record.tournamentId = T
    /\ record.selections = JSONstringify(makeDraftData(T, S, 0, 0)).json.selections

\* slot i of the stored record holds a golfer of the field G
ValidSlot(i, G) ==
    /\ Filled(record.selections.items[i])
    /\ record.selections.items[i].id \in Ids(G)

\* text that load cannot turn into a record
CannotParse(text) ==
    /\ text.t = "string"
    /\ (JSONparse(text).threw \/ JSONparse(text).value.t = "null")

\* what load(T, G) and save(T, S) do when called now; gf, sf and rf say
\* whether getItem, setItem and removeItem throw
loadNow(T, G, gf, rf) == loadDraftFromStorage(localStorage, now, T, G, gf, rf)
saveNow(T, S, sf, d) == saveDraftToStorage(localStorage, now, d, T, S, sf)
hasNow(T, gf) == hasSavedDraft(localStorage, now, T, gf)
Removed(out) == "removeItem" \notin out.faults => out.ls[STORAGE_KEY] = Null
Logged(out, msg) == \E i \in DOMAIN out.logs : out.logs[i] = msg

----------------------------------------------------------------------------
(* Properties.  A property of one call is stated of the call made in any   *)
(* reachable state, with any arguments; its witness is a state that such a *)
(* call has left.                                                          *)

\* C1 as stated: for any tournament id T and any 8-slot selections S (any
\* mix of golfers and empties) whose golfers are all available, save(T, S)
\* followed immediately by load(T, availableGolfers) returns an array
\* equal to S slot by slot by golfer id.  (The step is the load; the state
\* before it is the one a save(T, S) left, T being the id it wrote.)
C1_RoundTripAnySelection ==
    [][(last.op = "save" /\ last.branch = "written" /\ last'.op = "load") =>
        \A G \in GolferLists :
            Load(record.tournamentId, G, FALSE, FALSE) =>
                \A S \in EightSlotArrays :
                    (/\ WrittenBy(record.tournamentId, S)
                     /\ GolferIds(S) \subseteq Ids(G))
                    => SameById(last'.result, S)]_vars

\* C1 amended: the round trip holds for every S that holds at least one
\* golfer (an S of empties only comes back as null).
C1_RoundTripSomeGolfer ==
    [][(last.op = "save" /\ last.branch = "written" /\ last'.op = "load") =>
        \A G \in GolferLists :
            Load(record.tournamentId, G, FALSE, FALSE) =>
                \A S \in SelectionArrays :
                    (/\ WrittenBy(record.tournamentId, S)
                     /\ GolferIds(S) # {}
                     /\ GolferIds(S) \subseteq Ids(G))
                    => SameById(last'.result, S)]_vars

\* a load right after a save gave back every golfer of the record
C1_Witness ==
    /\ last.op = "load"
    /\ last.afterSave
    /\ last.branch = "restored"
    /\ HoldsRecord
    /\ SameById(last.result, record.selections)
    /\ Cardinality(GolferIds(record.selections)) >= 2

\* C2: whenever the stored record's tournamentId differs from the one
\* passed to load, load returns null and (the removal not failing) the
\* record is gone from storage, whatever its selections and expiry; load
\* never returns selections saved for another tournament.
C2_StaleTournament ==
    \A T \in TournamentIds, G \in GolferLists, gf, rf \in BOOLEAN :
        (HoldsRecord /\ record.tournamentId # T)
        => \A out \in {loadNow(T, G, gf, rf)} :
              /\ out.result = Null
              /\ Removed(out)

\* a load found the record of another tournament just saved and removed it
C2_Witness ==
    /\ last.op = "load"
    /\ last.afterSave
    /\ last.branch = "mismatch"
    /\ last.result = Null
    /\ Absent

\* C3: for a record of the matching tournament, load at a time strictly
\* after expiresAt returns null and removes the record; load at a time up
\* to and including expiresAt is not rejected for expiry, and returns
\* non-null when a stored golfer is still available.
C3_ExpiryBoundary ==
    \A T \in TournamentIds, G \in GolferLists, gf, rf \in BOOLEAN :
        (HoldsRecord /\ record.tournamentId = T)
        => \A out \in {loadNow(T, G, gf, rf)} :
              /\ now > record.expiresAt.v =>
                   /\ out.result = Null
                   /\ Removed(out)
              /\ (now <= record.expiresAt.v /\ ~gf) =>
                   /\ out.branch # "expired"
                   /\ GolferIds(record.selections) \cap Ids(G) # {}
                        => out.result.t = "array"

\* a load at exactly expiresAt restored the record
C3_Witness ==
    /\ last.op = "load"
    /\ last.branch = "restored"
    /\ HoldsRecord
    /\ now = record.expiresAt.v

\* a load one millisecond after expiresAt removed the record
C3_WitnessExpired ==
    /\ last.op = "load"
    /\ last.branch = "expired"
    /\ last.result = Null
    /\ Absent

\* C4: when load accepts a record and a slot stays non-empty, result slot
\* i is empty exactly when stored slot i is empty or holds a golfer who is
\* not available, every other slot keeps its golfer at index i, and the
\* record stays in storage.
C4_PartialInvalidation ==
    \A T \in TournamentIds, G \in GolferLists, rf \in BOOLEAN :
        (/\ HoldsRecord
         /\ record.tournamentId = T
         /\ now <= record.expiresAt.v
         /\ \E i \in DOMAIN record.selections.items : ValidSlot(i, G))
        => \A out \in {loadNow(T, G, FALSE, rf)} :
              /\ out.result.t = "array"
              /\ DOMAIN out.result.items = DOMAIN record.selections.items
              /\ \A i \in DOMAIN record.selections.items :
                    /\ out.result.items[i] = Null <=> ~ValidSlot(i, G)
                    /\ ValidSlot(i, G) =>
                         out.result.items[i].id = record.selections.items[i].id
              /\ out.ls = localStorage

\* a load kept one golfer and emptied the slot of another
C4_Witness ==
    /\ last.op = "load"
    /\ last.branch = "restored"
    /\ HoldsRecord
    /\ \E i, j \in DOMAIN last.result.items :
          /\ last.result.items[i] # Null
          /\ last.result.items[j] = Null
          /\ record.selections.items[j] # Null

\* C5: every non-empty slot of a load result is the golfer object of
\* availableGolfers whose id is the id cached in that slot; nothing else
\* of the cached object reaches the caller.
C5_FreshData ==
    \A T \in TournamentIds, G \in GolferLists, gf, rf \in BOOLEAN :
        \A out \in {loadNow(T, G, gf, rf)} :
           out.result.t = "array" =>
              \A i \in DOMAIN out.result.items :
                  out.result.items[i] # Null =>
                     \E j \in DOMAIN G.items :
                        /\ out.result.items[i] = G.items[j]
                        /\ G.items[j].id = record.selections.items[i].id

\* a load returned a golfer whose cached copy differs from the live one
C5_Witness ==
    /\ last.op = "load"
    /\ last.branch = "restored"
    /\ HoldsRecord
    /\ \E i \in DOMAIN last.result.items :
          /\ last.result.items[i] # Null
          /\ last.result.items[i] # record.selections.items[i]
          /\ last.result.items[i].id = record.selections.items[i].id

\* C6: if no slot of an unexpired record of the matching tournament holds
\* an available golfer, load returns null and (the removal not failing)
\* removes the record; load never returns an array of empty slots only.
C6_TotalInvalidation ==
    \A T \in TournamentIds, G \in GolferLists, gf, rf \in BOOLEAN :
        \A out \in {loadNow(T, G, gf, rf)} :
           /\ (/\ HoldsRecord
               /\ record.tournamentId = T
               /\ now <= record.expiresAt.v
               /\ \A i \in DOMAIN record.selections.items : ~ValidSlot(i, G))
              => (out.result = Null /\ Removed(out))
           /\ out.result.t = "array" =>
                 \E i \in DOMAIN out.result.items : out.result.items[i] # Null

\* a load found golfers in the record, none of them available, and
\* removed the record
C6_Witness ==
    /\ last.op = "load"
    /\ last.afterSave
    /\ last.branch = "invalid"
    /\ last.result = Null
    /\ Absent

\* C7 as stated: when the stored value cannot be parsed as a record, load
\* returns null, removes the stored value, logs an error and does not
\* throw.
C7_CorruptedAnyText ==
    \A T \in TournamentIds, G \in GolferLists, rf \in BOOLEAN :
        CannotParse(stored)
        => \A out \in {loadNow(T, G, FALSE, rf)} :
              /\ out.result = Null
              /\ ~out.threw
              /\ Logged(out, LoadErrorMsg)
              /\ Removed(out)

\* C7 amended: the same for a stored value that is not the empty string
\* (load takes the empty string for no value: it returns null and neither
\* removes it nor logs).
C7_CorruptedNonEmptyText ==
    \A T \in TournamentIds, G \in GolferLists, rf \in BOOLEAN :
        (CannotParse(stored) /\ stored # RawText(""))
        => \A out \in {loadNow(T, G, FALSE, rf)} :
              /\ out.result = Null
              /\ ~out.threw
              /\ Logged(out, LoadErrorMsg)
              /\ Removed(out)

\* a load hit text that is not JSON, logged and removed it
C7_Witness ==
    /\ last.op = "load"
    /\ last.branch = "SyntaxError"
    /\ last.result = Null
    /\ last.logs = <<LoadErrorMsg>>
    /\ Absent

\* C8: no cache operation throws to its caller, whatever storage holds and
\* whichever of getItem, setItem and removeItem fails: save and clear
\* return normally, load returns an array or null, exists a boolean.
C8_NeverThrows ==
    /\ ~last.threw
    /\ last.op \in {"save", "clear"} => last.result = Undefined
    /\ last.op = "load" => last.result.t \in {"array", "null"}
    /\ last.op = "exists" => last.result.t = "boolean"

\* a load in which getItem threw and then removeItem threw
C8_Witness ==
    /\ last.op = "load"
    /\ last.faults = {"getItem", "removeItem"}
    /\ ~last.threw

\* C9: save with a null or undefined tournamentId never calls the write
\* primitive and leaves storage as it was, for any selections.
C9_NoOpOnMissingId ==
    \A T \in {Null, Undefined}, S \in SelectionArrays, sf \in BOOLEAN,
       d \in 0..MaxMs :
        \A out \in {saveNow(T, S, sf, d)} :
            /\ out.ls = localStorage
            /\ out.calls = <<>>
            /\ ~out.threw

\* a save without an id left a stored record alone
C9_Witness ==
    /\ last.op = "save"
    /\ last.branch = "no id"
    /\ last.calls = <<>>
    /\ HoldsRecord

\* C10: when the storage write throws during save, save returns normally,
\* the error is logged, and storage holds what it held before the call.
C10_FailedWrite ==
    \A T \in NumericIds, S \in SelectionArrays, d \in 0..MaxMs :
        \A out \in {saveNow(T, S, TRUE, d)} :
            /\ out.ls = localStorage
            /\ ~out.threw
            /\ Logged(out, SaveErrorMsg)

\* a save whose write threw left the previous record in place
C10_Witness ==
    /\ last.op = "save"
    /\ last.branch = "write failed"
    /\ "setItem" \in last.faults
    /\ HoldsRecord

\* C11: every record save writes has expiresAt = savedAt + 172800000, also
\* when the clock advances while save is executing.  save reads Date.now()
\* once for savedAt and once more for expiresAt, so a save during which the
\* clock advances by drift writes expiresAt = savedAt + drift + 172800000.
C11_ExpiryIsSavedAtPlusTTL ==
    (last.op = "save" /\ last.branch = "written")
    => record.expiresAt.v = record.savedAt.v + EXPIRATION_MS

\* C12: a save(T, S) with a truthy T whose write succeeds replaces whatever
\* the key held (a valid or expired record, a record of another tournament,
\* text that is no record): storage then holds exactly the record just
\* written.  After such a save no load for another tournament returns
\* anything, and a load returns a golfer only in a slot where S has that
\* golfer, so nothing of a record saved before can be loaded.
C12_SingletonOverwrite ==
    /\ \A T \in NumericIds, S \in SelectionArrays, d \in 0..MaxMs :
          saveNow(T, S, FALSE, d).ls =
              [k \in Keys |-> JSONstringify(makeDraftData(T, S, now, d))]
    /\ (last.op = "save" /\ last.branch = "written") =>
          \A T \in TournamentIds, G \in GolferLists :
              \A R \in {loadNow(T, G, FALSE, FALSE).result},
                 S \in {history.selections} :
                 /\ T # history.tournamentId => R = Null
                 /\ R # Null =>
                       \A i \in DOMAIN R.items :
                           Filled(R.items[i]) =>
                               /\ Filled(S.items[i])
                               /\ R.items[i].id = S.items[i].id

\* a save for one tournament has just replaced the record of another
C12_Witness ==
    /\ last.op = "save"
    /\ last.branch = "written"
    /\ last.replaced.kind = "record"
    /\ last.replaced.tournamentId # record.tournamentId
    /\ history.tournamentId = record.tournamentId
    /\ GolferIds(record.selections) # {}

\* C13: exists(T) returns true exactly when the key holds a record whose
\* tournamentId is T and the time is not after its expiresAt; the golfers
\* of the record play no part.  It returns false, and does not throw, when
\* the stored value is no record or cannot be read.
C13_ExistsIffLiveRecord ==
    \A T \in TournamentIds :
        \A read \in {hasNow(T, FALSE)}, unread \in {hasNow(T, TRUE)} :
            /\ read.result = Bool(/\ HoldsRecord
                                  /\ record.tournamentId = T
                                  /\ now <= record.expiresAt.v)
            /\ ~read.threw
            /\ unread.result = Bool(FALSE)
            /\ ~unread.threw

\* exists returned true for a record at the instant of its expiry, a record
\* from which a load with an empty field restores nothing
C13_Witness ==
    /\ last.op = "exists"
    /\ last.result = Bool(TRUE)
    /\ HoldsRecord
    /\ now = record.expiresAt.v
    /\ loadNow(record.tournamentId, Arr(<<>>), FALSE, FALSE).result = Null

\* exists returned false on text that cannot be parsed
C13_WitnessCorrupted ==
    /\ last.op = "exists"
    /\ last.branch = "SyntaxError"
    /\ last.result = Bool(FALSE)
    /\ ~last.threw

\* C14: exists never changes storage: whatever the key holds (a live or
\* expired record, a record of another tournament, text that is no record),
\* storage after exists(T) is what it was before, and exists calls neither
\* the write nor the remove primitive; the same value is removed by load.
C14_ExistsReadOnly ==
    \A T \in TournamentIds, gf \in BOOLEAN :
        /\ hasNow(T, gf).ls = localStorage
        /\ hasNow(T, gf).calls = <<"getItem">>

\* exists answered false for an expired record and left it stored, where a
\* load for the same tournament removes it
C14_Witness ==
    /\ last.op = "exists"
    /\ last.result = Bool(FALSE)
    /\ HoldsRecord
    /\ now > record.expiresAt.v
    /\ \A G \in GolferLists :
          loadNow(record.tournamentId, G, FALSE, FALSE).ls[STORAGE_KEY] = Null

\* C15: clear is idempotent: called on empty storage, or a second time
\* right after a clear, it does not throw, logs nothing and leaves storage
\* empty; called on a stored value it removes it, whatever the tournament
\* and the expiry of the record.
C15_ClearIdempotent ==
    LET once == clearDraftStorage(localStorage, FALSE)
        twice == clearDraftStorage(once.ls, FALSE)
    IN /\ once.ls = [k \in Keys |-> Null]
       /\ ~once.threw /\ once.logs = <<>>
       /\ twice.ls = once.ls
       /\ ~twice.threw /\ twice.logs = <<>>

\* a clear was made on storage that was already empty
C15_Witness ==
    /\ last.op = "clear"
    /\ last.replaced.kind = "nothing"
    /\ ~last.threw
    /\ Absent

\* a clear removed a stored record
C15_WitnessRecord ==
    /\ last.op = "clear"
    /\ last.replaced.kind = "record"
    /\ Absent

\* C16: once a clear has removed the key, every load returns null and every
\* exists returns false, for every tournamentId and every field, however
\* much time passes and whatever reads are made, until a save writes again.
C16_NothingAfterClear ==
    history = Cleared =>
        /\ \A T \in TournamentIds, G \in GolferLists, gf, rf \in BOOLEAN :
              loadNow(T, G, gf, rf).result = Null
        /\ \A T \in TournamentIds, gf \in BOOLEAN :
              hasNow(T, gf).result = Bool(FALSE)

\* a clear removed the key, time passed, and a later load found nothing
C16_Witness ==
    /\ history = Cleared
    /\ last.op = "load"
    /\ last.branch = "absent"
    /\ last.result = Null
    /\ now > 0

\* C17: after any sequence of saves for a tournament T, a load(T, G) made
\* before the record expires, the record not having been removed since,
\* reflects the selections S of the most recent save that wrote and never
\* those of an earlier one: it returns null when no golfer of S is in G,
\* and otherwise the slots of S, each golfer of S that is in G as G has
\* it and every other slot null.
C17_LastSaveWins ==
    history.kind = "saved" =>
        /\ HoldsRecord
        /\ now <= record.expiresAt.v =>
              \A G \in GolferLists :
                  \A R \in {loadNow(history.tournamentId, G,
                                     FALSE, FALSE).result} :
                      LET S == history.selections.items
                          Kept(i) == Filled(S[i]) /\ S[i].id \in Ids(G)
                      IN IF \A i \in DOMAIN S : ~Kept(i) THEN R = Null
                         ELSE /\ R.t = "array"
                              /\ DOMAIN R.items = DOMAIN S
                              /\ \A i \in DOMAIN S :
                                    R.items[i] = IF Kept(i)
                                                 THEN find(G, S[i].id)
                                                 ELSE Null

\* a save has replaced a record of the same tournament that had other
\* selections, and a load for that tournament restores the golfers of the
\* selections just saved
C17_Witness ==
    /\ history.kind = "saved"
    /\ last.op = "save"
    /\ last.replaced.kind = "record"
    /\ last.replaced.tournamentId = history.tournamentId
    /\ ~last.replaced.sameSelections
    /\ now <= record.expiresAt.v
    /\ \E G \in GolferLists :
          LET R == loadNow(history.tournamentId, G, FALSE, FALSE).result
          IN /\ R # Null
             /\ GolferIds(R) = GolferIds(history.selections)

C19_ClearedAfterSubmission ==
    submitPicksMutation.status = "success"
    => /\ Absent
       /\ \A G \in GolferLists :
             loadNow(data.tournament.id, G, FALSE, FALSE).result = Null

\* C20: every change of a pick slot writes the full selection array to the
\* cache under the active tournament's id, so that after any sequence of
\* pick changes the stored selections are the selections shown.
\* handleGolferSelect only sets the component's state: nothing is written.
C20_StoredEqualsShown ==
    selectedGolfers # Arr(<<>>)
    => /\ HoldsRecord
       /\ record.tournamentId = data.tournament.id
       /\ record.selections =
             Arr([i \in DOMAIN selectedGolfers.items |->
                     JSONElement(selectedGolfers.items[i])])

C22_LazyExpiry ==
    [][/\ last'.op = "tick" => localStorage' = localStorage
       /\ (stored # Null /\ localStorage'[STORAGE_KEY] = Null) =>
             /\ last'.op \in {"load", "clear"}
             /\ (last'.op = "load" /\ last'.faults = {}) =>
                   last'.branch \in {"mismatch", "expired", "invalid",
                                     "SyntaxError", "TypeError"}]_vars

\* time has passed beyond the expiry of a record, and the record is still
\* stored
C22_Witness ==
    /\ last.op = "tick"
    /\ HoldsRecord
    /\ now > record.expiresAt.v
    /\ history.kind = "saved"

\* C23: golfer list not ready.  A load(T, []) on an unexpired record of
\* tournament T finds no slot valid: it returns null and (the removal not
\* failing) removes the record, golfers of the field included, so that no
\* load made afterwards, with whatever golfer list, restores anything.
C23_EmptyFieldDestroys ==
    \A T \in NumericIds, rf \in BOOLEAN :
        (/\ HoldsRecord
         /\ record.tournamentId = T
         /\ now <= record.expiresAt.v)
        => \A out \in {loadNow(T, NoGolfers, FALSE, rf)} :
              /\ out.result = Null
              /\ out.branch = "invalid"
              /\ Removed(out)
              /\ ~rf => \A G \in GolferLists :
                          loadDraftFromStorage(out.ls, now, T, G,
                                               FALSE, FALSE).result = Null

\* a load with no golfers has just removed the record, a golfer in it,
\* that a save had written, and nothing is left for a load with the field
C23_Witness ==
    /\ last.op = "load"
    /\ last.noGolfers
    /\ last.afterSave
    /\ last.replaced.kind = "record"
    /\ last.result = Null
    /\ Absent
    /\ \A T \in NumericIds, G \in GolferLists :
          loadNow(T, G, FALSE, FALSE).result = Null

\* C24: two writers.  However the saves of two tabs interleave, once a
\* save has written, the key holds exactly the complete record of the save
\* that wrote last: its tournament, two timestamps and, slot by
\* slot, its selections; no slot holds a golfer of the other tab's record.
C24_LastWriterWins ==
    history.kind = "saved" =>
        /\ HoldsRecord
        /\ DOMAIN record =
              {"t", "tournamentId", "savedAt", "expiresAt", "selections"}
        /\ record.tournamentId = history.tournamentId
        /\ record.selections = history.selections
        /\ record.savedAt.t = "number" /\ record.expiresAt.t = "number"
        /\ \A tab \in Tabs :
              Filled(record.selections.items[tab]) =>
                  \A other \in Tabs \ {tab} :
                      ~Filled(record.selections.items[other])

\* a tab built its record, the other tab wrote, and the first tab then
\* wrote over the other's record: the key holds the golfer of the first
\* tab only
C24_Witness ==
    /\ last.op = "save"
    /\ last.branch = "written"
    /\ last.replaced.kind = "record"
    /\ ~last.replaced.sameSelections
    /\ HoldsRecord
    /\ \E tab \in Tabs :
          /\ tabs[tab].pc = "idle"
          /\ tabs[tab].overtaken
          /\ Filled(record.selections.items[tab])
          /\ \A i \in 1..NumSlots \ {tab} : record.selections.items[i] = Null

\* C25: the screen sends picks to the server only when exactly 8 slots
\* hold a golfer.  With fewer, the submit handler sends nothing and shows
\* the message; when it sends, it sends 8 picks, the golfer of slot k as
\* the k-th; and the mutation starts in no other step.
C25_SubmitsExactlyEight ==
    [][LET held == {k \in DOMAIN selectedGolfers.items :
                       Filled(selectedGolfers.items[k])}
       IN /\ handleSubmit =>
                IF Cardinality(held) < NumSlots
                THEN /\ message' = PleaseSelectMsg
                     /\ submitPicksMutation' = submitPicksMutation
                ELSE /\ submitPicksMutation'.status = "pending"
                     /\ submitPicksMutation'.variables =
                           [k \in 1..NumSlots |->
                               [golfer_id |-> selectedGolfers.items[k].id]]
          /\ (/\ submitPicksMutation.status # "pending"
              /\ submitPicksMutation'.status = "pending")
             => held = 1..NumSlots]_vars

\* 8 picks are on their way to the server, the first of them a golfer
\* other than golfer 1, in the order of the slots
C25_Witness ==
    /\ submitPicksMutation.status = "pending"
    /\ Len(submitPicksMutation.variables) = NumSlots
    /\ submitPicksMutation.variables[1].golfer_id # 1
    /\ \A k \in 1..NumSlots :
          /\ Filled(selectedGolfers.items[k])
          /\ submitPicksMutation.variables[k].golfer_id
                 = selectedGolfers.items[k].id

\* the handler was run with 7 golfers selected, showed the message and
\* sent nothing
C25_WitnessTooFew ==
    /\ message = PleaseSelectMsg
    /\ submitPicksMutation = Idle
    /\ Cardinality({k \in DOMAIN selectedGolfers.items :
                       Filled(selectedGolfers.items[k])}) = NumSlots - 1

\* C26: a golfer selected in one pick slot is not among the options of
\* any other slot, while the golfer of a slot stays among its own
\* options; so, starting from an empty selection, no sequence of choices
\* in the selects puts one golfer in two slots.
C26_NoGolferTwice ==
    LET slots == DOMAIN selectedGolfers.items
        held == {k \in slots : Filled(selectedGolfers.items[k])}
        Offered(p) == Ids(getAvailableGolfers(selectedGolfers, p))
    IN /\ \A p \in 1..NumSlots, q \in held :
             IF p = q THEN selectedGolfers.items[q].id \in Offered(p)
             ELSE selectedGolfers.items[q].id \notin Offered(p)
       /\ \A p, q \in held :
             p # q => selectedGolfers.items[p].id # selectedGolfers.items[q].id

\* slot 1 holds a golfer other than golfer 1 and slot 2 another one: each
\* is offered in its own select and not in the other's, and the rest of
\* the field is offered in both
C26_Witness ==
    /\ Len(selectedGolfers.items) >= 2
    /\ Filled(selectedGolfers.items[1])
    /\ Filled(selectedGolfers.items[2])
    /\ selectedGolfers.items[1].id # 1
    /\ \E first \in {Ids(getAvailableGolfers(selectedGolfers, 1))},
          second \in {Ids(getAvailableGolfers(selectedGolfers, 2))} :
          /\ selectedGolfers.items[1].id \in first \ second
          /\ selectedGolfers.items[2].id \in second \ first
          /\ first \cap second # {}

\* C27: a load that returns a non-null result leaves storage exactly as it
\* was: it calls neither the write nor the remove primitive, so the stored
\* record keeps its selections (a golfer who is no longer available
\* included), its savedAt and its expiresAt, and reading a draft does not
\* extend its lifetime.
C27_LoadKeepsRecord ==
    \A T \in TournamentIds, G \in GolferLists, gf, rf \in BOOLEAN :
        \A out \in {loadNow(T, G, gf, rf)} :
            out.result # Null =>
                /\ out.ls = localStorage
                /\ out.calls = <<"getItem">>
                /\ out.ls[STORAGE_KEY].json.expiresAt = record.expiresAt

\* some time after the save a load restored one golfer of the record and
\* not another, and the record is stored as the save wrote it, that golfer
\* and its timestamps included
C27_Witness ==
    /\ last.op = "load"
    /\ last.branch = "restored"
    /\ last.calls = <<"getItem">>
    /\ history.kind = "saved"
    /\ HoldsRecord
    /\ record.selections = history.selections
    /\ now > record.savedAt.v
    /\ record.expiresAt.v <= record.savedAt.v + EXPIRATION_MS + MaxMs
    /\ \E j \in DOMAIN last.result.items :
          /\ last.result.items[j] = Null
          /\ Filled(record.selections.items[j])

\* C28: load and exists agree on the validity of a record: for every
\* stored value and every time, if load(T, G) returns a non-null result
\* then exists(T), evaluated on the same storage at the same time,
\* returns true.  load rejects a record when now > expiresAt and exists
\* accepts it when now <= expiresAt: for a record without a numeric
\* expiresAt both comparisons are false, load restores it and exists
\* answers false.
C28_LoadImpliesExists ==
    \A T \in TournamentIds, G \in GolferLists :
        loadNow(T, G, FALSE, FALSE).result # Null
            => hasNow(T, FALSE).result = Bool(TRUE)

\* C29: load is idempotent: of two consecutive load(T, G) calls with the
\* same arguments at the same time, nothing happening in between, the
\* second returns what the first returned and leaves storage as the first
\* left it.
C29_LoadIdempotent ==
    \A T \in TournamentIds, G \in GolferLists :
        \A first \in {loadNow(T, G, FALSE, FALSE)} :
            \A second \in {loadDraftFromStorage(first.ls, now, T, G,
                                                 FALSE, FALSE)} :
                /\ second.result = first.result
                /\ second.ls = first.ls

\* a load restored golfers, and the same load made again restores the
\* same array from the same record
C29_Witness ==
    /\ last.op = "load"
    /\ last.branch = "restored"
    /\ HoldsRecord
    /\ \E G \in GolferLists :
          \E again \in {loadNow(record.tournamentId, G, FALSE, FALSE)} :
              /\ again.result = last.result
              /\ again.ls = localStorage

\* a load removed an expired record and returned null, and the same load
\* made again returns null and leaves the key absent
C29_WitnessRemoved ==
    /\ last.op = "load"
    /\ last.branch = "expired"
    /\ last.result = Null
    /\ last.replaced.kind = "record"
    /\ Absent
    /\ \A G \in GolferLists :
          \E again \in {loadNow(last.replaced.tournamentId, G, FALSE, FALSE)} :
              /\ again.result = Null
              /\ again.ls = localStorage

\* C30: logout always ends the local session: once authService.logout
\* has finished, the sign-out request having succeeded or failed, the
\* stored token and the stored user are removed, isAuthenticated() is
\* false and every private route shows the login page.
C30_LogoutEndsSession ==
    logoutCall.pc \in {"resolved", "rejected"} =>
        /\ getItem(authStorage, "authToken") = Null
        /\ getItem(authStorage, "user") = Null
        /\ ~isAuthenticated(authStorage)
        /\ \A path \in PrivatePaths \cup {OtherPath} :
              Routed(authStorage, path) = "/login"

\* the sign-out request of a signed-in user failed: logout threw, the
\* page it was called from is still shown, and the session is ended
C30_Witness ==
    /\ logoutCall.pc = "rejected"
    /\ location \in PrivatePaths
    /\ authStorage = [k \in AuthKeys |-> Null]
    /\ Routed(authStorage, location) = "/login"

====
